---- MODULE Spec2Model ----
(***************************************************************************)
(* NF-e ingestion (joaomrpimentel/watchman): the Airflow operator          *)
(* NFeParserOperator (execute, extrair_dados_nfe, save_to_postgres,        *)
(* _insert_or_get_pessoa_id, save_processing_status) over a source folder, *)
(* a destination folder and the nfe.* tables.  Every SQL statement of the  *)
(* operator runs with autocommit=True, so every statement is one atomic    *)
(* step of the model.                                                      *)
(***************************************************************************)
EXTENDS Integers, Sequences, FiniteSets, TLC

VARIABLES
    srcFolder,  \* source_folder: file name -> document id, None when absent
    dstFolder,  \* destination_folder: file name -> document id, None when absent
    db,         \* the nfe.* tables, each a set of rows with a serial id
    wk,         \* per worker: the frame of execute / save_to_postgres
    workers,    \* the workers (task instances) that may run execute
    faults,     \* number of I/O and database errors raised so far
    runs,       \* number of execute runs started so far
    calls       \* completed save_to_postgres calls (history)

vars == <<srcFolder, dstFolder, db, wk, workers, faults, runs, calls>>

(***************************************************************************)
(* Bounds                                                                  *)
(***************************************************************************)
MaxFaults == 1      \* I/O or database errors raised in one behaviour
MaxRuns == 2        \* execute runs in one behaviour

None == 0           \* Python None for identities and for xml_content
Workers == {1, 2}
FileNames == {"a.xml", "b.xml"}

(***************************************************************************)
(* Documents.  A document is the content of one file.  form is "xml" for   *)
(* well-formed XML, "malformed" for text ElementTree cannot parse and      *)
(* "empty" for the empty string.  Tax ids and access keys are strings, ""  *)
(* is the empty text findtext/attrib.get default to.  The address of a     *)
(* party (ender) is "none" when the party has no address node, "full" when *)
(* every subfield is given and "nocep" when the CEP node is missing.       *)
(***************************************************************************)
NoParty == [present |-> FALSE, cnpj |-> "", cpf |-> "", ender |-> "none"]
Party(cnpj, cpf, ender) ==
    [present |-> TRUE, cnpj |-> cnpj, cpf |-> cpf, ender |-> ender]
Det(kind, n, imp) == [nItemKind |-> kind, nItem |-> n, impostos |-> imp]
\* one vol node: the texts of its qVol and pesoL children ("" when absent)
Vol(qVol, pesoL) == [qVol |-> qVol, pesoL |-> pesoL, lacres |-> 0]
\* the volume v with n lacres elements under it
Sealed(v, n) == [v EXCEPT !.lacres = n]

BaseDoc ==
    [form |-> "xml", infNFe |-> TRUE, Id |-> "NFeK1", ide |-> "ok",
     emit |-> Party("c1", "", "full"), dest |-> Party("c2", "", "full"),
     dhEmi |-> "2023-05-01T14:30:00-03:00", dhSaiEnt |-> "",
     dets |-> <<Det("num", 1, 1)>>, tot |-> TRUE, vNF |-> "100.50",
     transp |-> FALSE, transporta |-> NoParty, vols |-> <<>>, reboques |-> 0,
     infAdic |-> FALSE]

DocTable ==
    << \* 1: a complete invoice with carrier, one item with two tax entries,
       \* one volume with a seal, and additional info
       [BaseDoc EXCEPT !.transp = TRUE, !.transporta = Party("c3", "", "none"),
                       !.dets = <<Det("num", 1, 2)>>,
                       !.vols = <<Sealed(Vol("12.0", "12.7"), 1)>>,
                       !.reboques = 1,
                       !.infAdic = TRUE],
       \* 2: another invoice of the same issuer, recipient identified by CPF
       \* (whose address has no CEP)
       [BaseDoc EXCEPT !.Id = "NFeK2", !.dest = Party("", "p1", "nocep"),
                       !.dets = <<Det("absent", 0, 0), Det("num", 2, 1)>>],
       \* 3: well-formed XML without the infNFe node
       [BaseDoc EXCEPT !.infNFe = FALSE, !.Id = "", !.dets = <<>>],
       \* 4: malformed XML (unclosed tag)
       [BaseDoc EXCEPT !.form = "malformed"],
       \* 5: issuer with neither CNPJ nor CPF, no line items
       [BaseDoc EXCEPT !.Id = "NFeK3", !.emit = Party("", "", "none"),
                       !.dets = <<>>],
       \* 6: the empty file
       [BaseDoc EXCEPT !.form = "empty"],
       \* 7: well-formed XML that is no NF-e at all (no infNFe, no ide)
       [BaseDoc EXCEPT !.infNFe = FALSE, !.Id = "", !.ide = "none",
                       !.emit = NoParty, !.dest = NoParty, !.dets = <<>>,
                       !.tot = FALSE],
       \* 8: a minimal invoice: issuer with address only, no items, no totals
       [BaseDoc EXCEPT !.Id = "NFeK4", !.emit = Party("c1", "", "full"),
                       !.dest = NoParty, !.dets = <<>>, !.tot = FALSE],
       \* 9: a small invoice of the same issuer: one item with one tax, totals
       [BaseDoc EXCEPT !.Id = "NFeK5", !.emit = Party("c1", "", "none"),
                       !.dest = NoParty],
       \* 10: an invoice with three volumes: no quantity, a quantity that is
       \* no number, an integer quantity
       [BaseDoc EXCEPT !.Id = "NFeK6", !.emit = Party("c4", "", "none"),
                       !.dest = NoParty, !.dets = <<>>, !.tot = FALSE,
                       !.transp = TRUE,
                       !.vols = <<Vol("", "abc"), Vol("abc", ""), Vol("12", "12.0")>>],
       \* 11: an invoice with one volume whose quantity and weight are "inf"
       [BaseDoc EXCEPT !.Id = "NFeK7", !.emit = Party("c4", "", "none"),
                       !.dest = NoParty, !.dets = <<>>, !.tot = FALSE,
                       !.transp = TRUE, !.vols = <<Vol("inf", "inf")>>],
       \* 12: an invoice whose second item has a non-numeric nItem
       [BaseDoc EXCEPT !.Id = "NFeK8", !.dest = NoParty,
                       !.dets = <<Det("num", 1, 0), Det("bad", 0, 0)>>],
       \* 13: an invoice whose emission date matches none of the formats
       [BaseDoc EXCEPT !.Id = "NFeK9", !.dest = NoParty, !.dets = <<>>,
                       !.dhEmi = "01.05.2023"],
       \* 14: an invoice whose exit date matches none of the formats
       [BaseDoc EXCEPT !.Id = "NFeK10", !.dest = NoParty, !.dets = <<>>,
                       !.dhSaiEnt = "01.05.2023"] >>

Docs == DOMAIN DocTable
\* the documents the two-worker specification starts from
ConcDocs == {4, 7, 8, 9}
DocOrNone == Docs \cup {None}

(***************************************************************************)
(* extrair_dados_nfe                                                       *)
(***************************************************************************)
\* infNFe.attrib.get('Id', '')[3:]
StripPrefix(s) ==
    CASE s = "NFeK1" -> "K1"
      [] s = "NFeK2" -> "K2"
      [] s = "NFeK3" -> "K3"
      [] s = "NFeK4" -> "K4"
      [] s = "NFeK5" -> "K5"
      [] s = "NFeK6" -> "K6"
      [] s = "NFeK7" -> "K7"
      [] s = "NFeK8" -> "K8"
      [] s = "NFeK9" -> "K9"
      [] s = "NFeK10" -> "K10"
      [] OTHER -> ""

\* A Python number or None.  kind is "int", "float", "inf", "nan" or "None";
\* a finite value is whole + frac / 100.
Number(kind, whole, frac) == [kind |-> kind, whole |-> whole, frac |-> frac]
NoneNumber == Number("None", 0, 0)

\* float(text): the value, or kind "ValueError" for a text that is no float
\* literal (the empty text included)
float(v) ==
    CASE v = "12" -> Number("float", 12, 0)
      [] v = "12.0" -> Number("float", 12, 0)
      [] v = "12.7" -> Number("float", 12, 70)
      [] v = "100.50" -> Number("float", 100, 50)
      [] v = "inf" -> Number("inf", 0, 0)
      [] v = "nan" -> Number("nan", 0, 0)
      [] OTHER -> Number("ValueError", 0, 0)

\* the result of a call: the exception that left it ("" for none) and the
\* value returned
Result(raised, value) == [raised |-> raised, value |-> value]

\* float(value) if value else None; except ValueError: None
_safe_float(v) ==
    IF v = "" THEN Result("", NoneNumber)
    ELSE IF float(v).kind = "ValueError" THEN Result("", NoneNumber)
    ELSE Result("", float(v))

\* int(float(value)) if value else None; except ValueError: None.
\* int(nan) raises ValueError, int(inf) raises OverflowError.
_safe_int(v) ==
    IF v = "" THEN Result("", NoneNumber)
    ELSE CASE float(v).kind = "ValueError" -> Result("", NoneNumber)
           [] float(v).kind = "nan" -> Result("", NoneNumber)
           [] float(v).kind = "inf" -> Result("OverflowError", NoneNumber)
           [] OTHER -> Result("", Number("int", float(v).whole, 0))

\* parse_date_to_timestamp(date_str).date(): the date of the first format
\* that matches, "None" when the text is empty or matches none
parse_date_to_timestamp(date_str) ==
    CASE date_str = "2023-05-01T14:30:00-03:00" -> "2023-05-01"
      [] OTHER -> "None"

\* "parse_date_to_timestamp(s).date() if s else None" for dhEmi and for
\* dhSaiEnt: .date() of None raises AttributeError
DateRaises(d) ==
    d.ide = "ok" /\ \/ d.dhEmi # "" /\ parse_date_to_timestamp(d.dhEmi) = "None"
                    \/ d.dhSaiEnt # "" /\ parse_date_to_timestamp(d.dhSaiEnt) = "None"

NoData ==
    [ok |-> FALSE, has_chave |-> FALSE, chave_acesso |-> "", has_ide |-> FALSE,
     data_emissao |-> "None", data_saida_entrada |-> "None",
     emitente |-> NoParty, destinatario |-> NoParty, transportadora |-> NoParty,
     itens |-> <<>>, totais |-> FALSE, valor_total_nfe |-> NoneNumber,
     transporte |-> FALSE,
     volumes |-> <<>>, lacres |-> 0, veiculos |-> 0,
     informacoes_adicionais |-> FALSE]

\* extracted_data['lacres']: one flat list for all volumes; its length
RECURSIVE Lacres(_)
Lacres(vols) ==
    IF vols = <<>> THEN 0 ELSE Head(vols).lacres + Lacres(Tail(vols))

\* int(det.attrib.get('nItem', str(i + 1)))
NumeroItem(det, i) == IF det.nItemKind = "absent" THEN i ELSE det.nItem

\* a _safe_int or _safe_float call on a volume lets an exception out
VolumeRaises(d) ==
    d.transp /\ \E k \in DOMAIN d.vols :
                   \/ _safe_int(d.vols[k].qVol).raised # ""
                   \/ _safe_float(d.vols[k].pesoL).raised # ""

\* The record extrair_dados_nfe returns; ok = FALSE stands for None.
extrair_dados_nfe(d) ==
    IF \/ d.form # "xml"                                  \* ET.fromstring raises
       \/ d.ide = "bad"                                   \* int(...) raises
       \/ \E i \in DOMAIN d.dets : d.dets[i].nItemKind = "bad"
       \/ DateRaises(d)
       \/ VolumeRaises(d)
    THEN NoData
    ELSE [ok |-> TRUE,
          has_chave |-> d.infNFe,
          chave_acesso |-> IF d.infNFe THEN StripPrefix(d.Id) ELSE "",
          has_ide |-> d.ide = "ok",
          data_emissao |-> IF d.ide = "ok" THEN parse_date_to_timestamp(d.dhEmi)
                           ELSE "None",
          data_saida_entrada |-> IF d.ide = "ok"
                                 THEN parse_date_to_timestamp(d.dhSaiEnt)
                                 ELSE "None",
          emitente |-> d.emit,
          destinatario |-> d.dest,
          \* transportadora_endereco is always built, from placeholders
          transportadora |-> IF d.transp /\ d.transporta.present
                             THEN [d.transporta EXCEPT !.ender = "placeholder"]
                             ELSE NoParty,
          itens |-> [i \in DOMAIN d.dets |->
                       [numero_item |-> NumeroItem(d.dets[i], i),
                        impostos |-> d.dets[i].impostos]],
          totais |-> d.tot,
          valor_total_nfe |-> IF d.tot THEN float(d.vNF) ELSE NoneNumber,
          transporte |-> d.transp,
          volumes |-> IF d.transp
                      THEN [k \in DOMAIN d.vols |->
                              [quantidade |-> _safe_int(d.vols[k].qVol).value,
                               peso_liquido |-> _safe_float(d.vols[k].pesoL).value]]
                      ELSE <<>>,
          lacres |-> IF d.transp THEN Lacres(d.vols) ELSE 0,
          veiculos |-> IF d.transp THEN d.reboques ELSE 0,
          informacoes_adicionais |-> d.infAdic]

\* extraction of xml_content; None (no content read yet) extracts nothing
DataOf(xml) == IF xml = None THEN NoData ELSE extrair_dados_nfe(DocTable[xml])

\* "if xml_content" in save_processing_status: None and '' are falsy
XmlTruthy(xml) == xml # None /\ DocTable[xml].form # "empty"

(***************************************************************************)
(* The store.  Rows are never deleted, so a table's next serial id is its  *)
(* size plus one.                                                          *)
(***************************************************************************)
EmptyDb ==
    [pessoa |-> {}, nfe |-> {}, endereco |-> {}, nfe_pessoa |-> {},
     item_nfe |-> {}, imposto |-> {}, totais_nfe |-> {}, transporte |-> {},
     transporte_item |-> {}, informacoes_adicionais |-> {},
     processamento_nfe |-> {}]

NextId(tbl) == Cardinality(tbl) + 1

\* INSERT INTO <tbl> (...) VALUES (...) RETURNING id
InsertRow(tbl, row) == tbl \cup {[id |-> NextId(tbl)] @@ row}

Roles == <<"EMITENTE", "DESTINATARIO", "TRANSPORTADORA">>

PartyOf(data, r) ==
    CASE r = 1 -> data.emitente
      [] r = 2 -> data.destinatario
      [] OTHER -> data.transportadora

\* the cep entry of the address dictionary: findtext('nfe:CEP', '') for the
\* issuer and the recipient, the literal '' for the carrier
CepOf(ender) == IF ender = "full" THEN "01000000" ELSE ""

HasTaxId(p) == p.cnpj # "" \/ p.cpf # ""

\* SELECT id FROM nfe.pessoa WHERE cnpj = %s  (elif cpf: WHERE cpf = %s)
PessoaMatches(pessoa, p) ==
    IF p.cnpj # "" THEN {x \in pessoa : x.cnpj = p.cnpj}
    ELSE IF p.cpf # "" THEN {x \in pessoa : x.cpf = p.cpf}
    ELSE {}

\* The store's uniqueness constraint on the party tax id (non-empty ids).
PessoaUniqueViolation(pessoa, p) ==
    \/ p.cnpj # "" /\ \E x \in pessoa : x.cnpj = p.cnpj
    \/ p.cpf # "" /\ \E x \in pessoa : x.cpf = p.cpf

\* a party without CNPJ and CPF is not inserted
InsertPessoaSkipNoTaxId(pessoa, p) ==
    IF HasTaxId(p) THEN InsertRow(pessoa, [cnpj |-> p.cnpj, cpf |-> p.cpf])
    ELSE pessoa

\* INSERT INTO nfe.pessoa (...) VALUES (...) RETURNING id
InsertPessoa(pessoa, p) == InsertRow(pessoa, [cnpj |-> p.cnpj, cpf |-> p.cpf])

\* every link is written with the recipient's role
LinkRowOneRole(nfe_id, pessoa_id, r) ==
    [nfe_id |-> nfe_id, pessoa_id |-> pessoa_id, tipo_relacao |-> Roles[2]]

\* the row of INSERT INTO nfe.nfe_pessoa (nfe_id, pessoa_id, tipo_relacao)
LinkRow(nfe_id, pessoa_id, r) ==
    [nfe_id |-> nfe_id, pessoa_id |-> pessoa_id, tipo_relacao |-> Roles[r]]

\* The chave_acesso column of the header row: NULL when the key is not in the
\* dictionary (no infNFe node).
ChaveColumn(data) == IF data.has_chave THEN data.chave_acesso ELSE "NULL"

\* the columns of the header row the model keeps, from data['nfe']
NfeRow(data) ==
    [chave_acesso |-> ChaveColumn(data), data_emissao |-> data.data_emissao]

NfeByChave(nfe, chave) == {x \in nfe : x.chave_acesso = chave /\ chave # "NULL"}

\* the header insert without its ON CONFLICT clause
InsertNfeNoConflict(nfe, row) == InsertRow(nfe, row)

\* INSERT INTO nfe.nfe ... ON CONFLICT (chave_acesso) DO UPDATE ... RETURNING id
UpsertNfe(nfe, row) ==
    IF NfeByChave(nfe, row.chave_acesso) # {} THEN nfe
    ELSE InsertRow(nfe, row)

UpsertNfeIdFresh(nfe, chave) == NextId(nfe)

\* the id the header upsert returns
UpsertNfeId(nfe, chave) ==
    IF NfeByChave(nfe, chave) # {}
    THEN (CHOOSE x \in NfeByChave(nfe, chave) : TRUE).id
    ELSE NextId(nfe)

\* rows of the tables other than nfe.nfe, nfe.pessoa and the audit table
ChildRowCount(d) ==
    Cardinality(d.endereco) + Cardinality(d.nfe_pessoa)
    + Cardinality(d.item_nfe) + Cardinality(d.imposto)
    + Cardinality(d.totais_nfe) + Cardinality(d.transporte)
    + Cardinality(d.transporte_item) + Cardinality(d.informacoes_adicionais)

(***************************************************************************)
(* save_processing_status: the store it leaves.  fail = the INSERT (or the *)
(* SELECT before it) raised.                                               *)
(***************************************************************************)
StatusNfeId(d, nfe_id, xml) ==
    IF nfe_id = None /\ XmlTruthy(xml) /\ DataOf(xml).has_chave
       /\ NfeByChave(d.nfe, DataOf(xml).chave_acesso) # {}
    THEN (CHOOSE x \in NfeByChave(d.nfe, DataOf(xml).chave_acesso) : TRUE).id
    ELSE nfe_id

\* an exception is raised inside the try block: the SELECT or the INSERT
\* failed, or extrair_dados_nfe returned None and None.get raises
StatusRaises(nfe_id, xml, fail) ==
    fail \/ (nfe_id = None /\ XmlTruthy(xml) /\ ~DataOf(xml).ok)

\* the method has no handler: what is raised inside it reaches the caller
StatusPropagatesNoExcept(nfe_id, xml, fail) == StatusRaises(nfe_id, xml, fail)

\* "except Exception as e: self.log.error(...)": nothing reaches the caller
StatusPropagates(nfe_id, xml, fail) == FALSE

save_processing_status(d, nfe_id, status, xml, fail) ==
    IF StatusRaises(nfe_id, xml, fail) THEN d
    ELSE [d EXCEPT !.processamento_nfe =
            InsertRow(@, [nfe_id |-> StatusNfeId(d, nfe_id, xml),
                          status |-> status, xml_original |-> xml])]

(***************************************************************************)
(* The frame of one worker.  ids[r] is emitente_id / destinatario_id /     *)
(* transportadora_id.  fresh, had, pre, exc and failed are history fields: *)
(* fresh = this call's header insert created the row, had = the access key *)
(* was stored when the call began, pre = ChildRowCount when the call       *)
(* began, exc = an exception was raised during the call, failed = the      *)
(* files of this run whose save_to_postgres returned None, skipped = the   *)
(* tax entries (item, entry) whose insert failed in this call, raised =    *)
(* the statement whose exception ended the attempt on the current file.    *)
(***************************************************************************)
IdleFrame ==
    [pc |-> "idle", runs |-> 0, files |-> <<>>, xml |-> None,
     ids |-> <<None, None, None>>, nfe_id |-> None, item_id |-> None,
     tr_id |-> None, i |-> 0, j |-> 0, ret |-> None,
     fresh |-> FALSE, had |-> FALSE, pre |-> 0, exc |-> FALSE, failed |-> {},
     skipped |-> {}, raised |-> ""]

\* the locals of save_to_postgres, back to their values between two files
ResetLocals(L) ==
    [L EXCEPT !.ids = <<None, None, None>>, !.nfe_id = None, !.item_id = None,
              !.tr_id = None, !.i = 0, !.j = 0, !.ret = None,
              !.fresh = FALSE, !.had = FALSE, !.pre = 0, !.exc = FALSE,
              !.skipped = {}, !.raised = ""]

Data(w) == DataOf(wk[w].xml)
CurFile(w) == Head(wk[w].files)

(***************************************************************************)
(* The statements of save_to_postgres in program order, for one extracted  *)
(* record, and which of them run given the identities resolved so far.     *)
(***************************************************************************)
Pos(pc, i, j) == [pc |-> pc, i |-> i, j |-> j]

RECURSIVE ItemPositions(_, _)
ItemPositions(itens, i) ==
    IF i > Len(itens) THEN <<>>
    ELSE <<Pos("item", i, 0)>>
         \o [j \in 1..itens[i].impostos |-> Pos("imposto", i, j)]
         \o ItemPositions(itens, i + 1)

Positions(data) ==
    <<Pos("pes_sel", 1, 0), Pos("pes_ins", 1, 0), Pos("pes_sel", 2, 0),
      Pos("pes_ins", 2, 0), Pos("pes_sel", 3, 0), Pos("pes_ins", 3, 0),
      Pos("nfe", 0, 0),
      Pos("end", 1, 0), Pos("end", 2, 0), Pos("end", 3, 0),
      Pos("link", 1, 0), Pos("link", 2, 0)>>
    \o ItemPositions(data.itens, 1)
    \o <<Pos("totais", 0, 0), Pos("transporte", 0, 0)>>
    \o [i \in 1..Len(data.volumes) |-> Pos("volume", i, 0)]
    \o [i \in 1..data.veiculos |-> Pos("veiculo", i, 0)]
    \o <<Pos("info", 0, 0), Pos("ret", 0, 0)>>

\* the conditions guarding each statement of save_to_postgres
Applicable(p, data, L) ==
    CASE p.pc = "pes_sel" -> PartyOf(data, p.i).present /\ HasTaxId(PartyOf(data, p.i))
      [] p.pc = "pes_ins" -> PartyOf(data, p.i).present /\ ~HasTaxId(PartyOf(data, p.i))
      [] p.pc = "end" -> L.ids[p.i] # None /\ PartyOf(data, p.i).ender # "none"
      [] p.pc = "link" -> L.ids[p.i] # None
      [] p.pc = "imposto" -> L.item_id # None
      [] p.pc = "totais" -> data.totais
      [] p.pc = "transporte" -> data.transporte
      [] p.pc \in {"volume", "veiculo"} -> data.transporte /\ L.tr_id # None
      [] p.pc = "info" -> data.informacoes_adicionais
      [] OTHER -> TRUE

MinOf(S) == CHOOSE m \in S : \A n \in S : m <= n

\* the first statement after index k that runs
NextFrom(k, data, L) ==
    LET P == Positions(data)
    IN P[MinOf({m \in (k + 1)..Len(P) : Applicable(P[m], data, L)})]

IndexOf(p, data) ==
    LET P == Positions(data) IN CHOOSE k \in DOMAIN P : P[k] = p

CallRec(w, L, r) ==
    [w |-> w, run |-> L.runs, file |-> Head(L.files), doc |-> L.xml,
     ret |-> r, clean |-> ~L.exc]

\* save_to_postgres returns r to execute
Return(w, L, r) ==
    /\ wk' = [wk EXCEPT ![w] =
                [L EXCEPT !.pc = "move", !.i = 0, !.j = 0, !.ret = r,
                          !.failed = IF r = None THEN @ \cup {Head(L.files)}
                                     ELSE @]]
    /\ calls' = calls \cup {CallRec(w, L, r)}

\* control moves from index k to the next statement that runs, with locals L
ContinueFrom(w, k, L) ==
    LET p == NextFrom(k, Data(w), L) IN
    IF p.pc = "ret" THEN Return(w, L, L.nfe_id)
    ELSE /\ wk' = [wk EXCEPT ![w] = [L EXCEPT !.pc = p.pc, !.i = p.i, !.j = p.j]]
         /\ UNCHANGED calls

Continue(w, L) ==
    ContinueFrom(w, IndexOf(Pos(wk[w].pc, wk[w].i, wk[w].j), Data(w)), L)

\* an exception reaches the except clause of save_to_postgres
Raise(w, L) ==
    /\ wk' = [wk EXCEPT ![w] = [L EXCEPT !.pc = "falha_db", !.exc = TRUE,
                                         !.raised = wk[w].pc]]
    /\ UNCHANGED calls

\* the statement raised (fail) within the budget of raised errors; the
\* two-worker specification raises none
FaultCap == IF Cardinality(workers) = 1 THEN MaxFaults ELSE 0
FaultChoice == IF faults < FaultCap THEN BOOLEAN ELSE {FALSE}
Count(fail) == faults' = IF fail THEN faults + 1 ELSE faults

\* the for loop of execute moves to the next file, or execute returns
NextFile(w, L) ==
    LET rest == Tail(L.files) IN
    wk' = [wk EXCEPT ![w] =
             [ResetLocals(L) EXCEPT !.files = rest,
                                    !.pc = IF rest = <<>> THEN "idle" ELSE "read"]]

\* an exception raised inside the try block of execute's loop body
ToExcept(w) == wk' = [wk EXCEPT ![w].pc = "st_erro"]

\* an exception leaves execute: the task fails, the rest of the list is
\* not processed
Abort(w, L) ==
    wk' = [wk EXCEPT ![w] = [ResetLocals(L) EXCEPT !.files = <<>>, !.pc = "idle"]]

(***************************************************************************)
(* execute                                                                 *)
(***************************************************************************)
Present(folder) == {f \in FileNames : folder[f] # None}

Orders(S) == {q \in [1..Cardinality(S) -> S] : \A f \in S : \E k \in DOMAIN q : q[k] = f}

\* os.listdir of the source folder (in any order); return when it is empty
StartExecute(w) ==
    /\ w \in workers
    /\ wk[w].pc = "idle"
    /\ runs < MaxRuns
    /\ runs' = runs + 1
    /\ \E q \in Orders(Present(srcFolder)) :
         wk' = [wk EXCEPT ![w] =
                  [ResetLocals(@) EXCEPT !.runs = runs + 1, !.files = q, !.xml = None,
                                         !.failed = {},
                                         !.pc = IF q = <<>> THEN "idle" ELSE "read"]]
    /\ UNCHANGED <<srcFolder, dstFolder, db, workers, faults, calls>>

\* open + read, extrair_dados_nfe, and the entry of save_to_postgres
ReadFile(w) ==
    /\ wk[w].pc = "read"
    /\ \E fail \in FaultChoice :
         /\ Count(fail)
         /\ IF fail \/ srcFolder[CurFile(w)] = None
            THEN \* open raises: the except clause of execute
                 wk' = [wk EXCEPT ![w].pc = "st_erro", ![w].raised = "read"]
            ELSE LET xml == srcFolder[CurFile(w)]
                     data == DataOf(xml)
                     L == [wk[w] EXCEPT
                             !.xml = xml,
                             !.pre = ChildRowCount(db),
                             !.had = NfeByChave(db.nfe, ChaveColumn(data)) # {}]
                     p == NextFrom(0, data, L)
                 IN IF ~data.ok
                    THEN wk' = [wk EXCEPT ![w] = [@ EXCEPT !.xml = xml,
                                                           !.pc = "st_extracao"]]
                    ELSE wk' = [wk EXCEPT ![w] =
                                  [L EXCEPT !.pc = p.pc, !.i = p.i, !.j = p.j]]
    /\ UNCHANGED <<srcFolder, dstFolder, db, workers, runs, calls>>

\* save_processing_status(..., 'FALHA_EXTRACAO', ...); continue
StatusExtracao(w) ==
    /\ wk[w].pc = "st_extracao"
    /\ \E fail \in FaultChoice :
         /\ Count(fail)
         /\ db' = save_processing_status(db, None, "FALHA_EXTRACAO", wk[w].xml, fail)
         /\ IF StatusPropagates(None, wk[w].xml, fail) THEN ToExcept(w)
            ELSE NextFile(w, wk[w])
    /\ UNCHANGED <<srcFolder, dstFolder, workers, runs, calls>>

\* the except clause of execute: save_processing_status(..., 'ERRO', ...)
\* with xml_content if it is bound (possibly by an earlier file of the loop)
StatusErro(w) ==
    /\ wk[w].pc = "st_erro"
    /\ \E fail \in FaultChoice :
         /\ Count(fail)
         /\ db' = save_processing_status(db, None, "ERRO", wk[w].xml, fail)
         /\ IF StatusPropagates(None, wk[w].xml, fail) THEN Abort(w, wk[w])
            ELSE NextFile(w, wk[w])
    /\ UNCHANGED <<srcFolder, dstFolder, workers, runs, calls>>

\* shutil.move(xml_path, dest_path), whatever save_to_postgres returned
MoveFile(w) ==
    /\ wk[w].pc = "move"
    /\ \E fail \in FaultChoice :
         /\ Count(fail)
         /\ IF fail \/ srcFolder[CurFile(w)] = None
            THEN /\ wk' = [wk EXCEPT ![w].pc = "st_erro"]
                 /\ UNCHANGED <<srcFolder, dstFolder>>
            ELSE /\ srcFolder' = [srcFolder EXCEPT ![CurFile(w)] = None]
                 /\ dstFolder' = [dstFolder EXCEPT ![CurFile(w)] = srcFolder[CurFile(w)]]
                 /\ wk' = [wk EXCEPT ![w].pc = "st_sucesso"]
    /\ UNCHANGED <<db, workers, runs, calls>>

\* save_processing_status(pg_hook, nfe_id, xml_file, 'SUCESSO', ...)
StatusSucesso(w) ==
    /\ wk[w].pc = "st_sucesso"
    /\ \E fail \in FaultChoice :
         /\ Count(fail)
         /\ db' = save_processing_status(db, wk[w].ret, "SUCESSO", wk[w].xml, fail)
         /\ IF StatusPropagates(wk[w].ret, wk[w].xml, fail) THEN ToExcept(w)
            ELSE NextFile(w, wk[w])
    /\ UNCHANGED <<srcFolder, dstFolder, workers, runs, calls>>

(***************************************************************************)
(* _insert_or_get_pessoa_id                                                *)
(***************************************************************************)
\* the SELECT by CNPJ or CPF; a hit returns the identity found
PessoaSelect(w) ==
    /\ wk[w].pc = "pes_sel"
    /\ \E fail \in FaultChoice :
         /\ Count(fail)
         /\ LET p == PartyOf(Data(w), wk[w].i)
                hits == PessoaMatches(db.pessoa, p)
            IN IF fail THEN Raise(w, wk[w])
               ELSE IF hits # {}
               THEN \E x \in hits :
                      Continue(w, [wk[w] EXCEPT !.ids[wk[w].i] = x.id])
               ELSE /\ wk' = [wk EXCEPT ![w].pc = "pes_ins"]
                    /\ UNCHANGED calls
    /\ UNCHANGED <<srcFolder, dstFolder, db, workers, runs>>

\* the INSERT ... RETURNING id; any exception is caught and None returned
PessoaInsert(w) ==
    /\ wk[w].pc = "pes_ins"
    /\ LET p == PartyOf(Data(w), wk[w].i)
           k == IndexOf(Pos("pes_ins", wk[w].i, 0), Data(w))
       IN \E fail \in FaultChoice :
            /\ Count(fail)
            /\ IF fail \/ PessoaUniqueViolation(db.pessoa, p)
               THEN /\ ContinueFrom(w, k, [wk[w] EXCEPT !.ids[wk[w].i] = None,
                                                         !.exc = TRUE])
                    /\ UNCHANGED db
               ELSE /\ db' = [db EXCEPT !.pessoa = InsertPessoa(@, p)]
                    /\ ContinueFrom(w, k, [wk[w] EXCEPT !.ids[wk[w].i] = NextId(db.pessoa)])
    /\ UNCHANGED <<srcFolder, dstFolder, workers, runs>>

(***************************************************************************)
(* save_to_postgres, one statement per action                              *)
(***************************************************************************)
\* the header dictionary is empty when neither infNFe nor ide was found:
\* INSERT INTO nfe.nfe () VALUES () is rejected by the store
NfeDictEmpty(data) == ~data.has_chave /\ ~data.has_ide

\* 2. the header upsert; "if not nfe_id: raise"
InsertNfe(w) ==
    /\ wk[w].pc = "nfe"
    /\ \E fail \in FaultChoice :
         /\ Count(fail)
         /\ IF fail \/ NfeDictEmpty(Data(w))
            THEN Raise(w, wk[w]) /\ UNCHANGED db
            ELSE LET chave == ChaveColumn(Data(w))
                     id == UpsertNfeId(db.nfe, chave)
                 IN /\ db' = [db EXCEPT !.nfe = UpsertNfe(@, NfeRow(Data(w)))]
                    /\ Continue(w, [wk[w] EXCEPT
                                      !.nfe_id = id,
                                      !.fresh = NfeByChave(db.nfe, chave) = {}])
    /\ UNCHANGED <<srcFolder, dstFolder, workers, runs>>

\* 3. _insert_endereco: the exception of a failed insert is caught and logged
InsertEndereco(w) ==
    /\ wk[w].pc = "end"
    /\ \E fail \in FaultChoice :
         /\ Count(fail)
         /\ IF fail
            THEN Continue(w, [wk[w] EXCEPT !.exc = TRUE]) /\ UNCHANGED db
            ELSE /\ db' = [db EXCEPT !.endereco =
                             InsertRow(@, [pessoa_id |-> wk[w].ids[wk[w].i],
                                           tipo_endereco |-> "PRINCIPAL",
                                           kind |-> PartyOf(Data(w), wk[w].i).ender,
                                           cep |-> CepOf(PartyOf(Data(w), wk[w].i).ender)])]
                 /\ Continue(w, wk[w])
    /\ UNCHANGED <<srcFolder, dstFolder, workers, runs>>

\* 4. nfe.nfe_pessoa for the issuer and the recipient
InsertNfePessoa(w) ==
    /\ wk[w].pc = "link"
    /\ \E fail \in FaultChoice :
         /\ Count(fail)
         /\ IF fail
            THEN Raise(w, wk[w]) /\ UNCHANGED db
            ELSE /\ db' = [db EXCEPT !.nfe_pessoa =
                             InsertRow(@, LinkRow(wk[w].nfe_id, wk[w].ids[wk[w].i],
                                                  wk[w].i))]
                 /\ Continue(w, wk[w])
    /\ UNCHANGED <<srcFolder, dstFolder, workers, runs>>

\* 5. one line item
InsertItem(w) ==
    /\ wk[w].pc = "item"
    /\ \E fail \in FaultChoice :
         /\ Count(fail)
         /\ IF fail
            THEN Raise(w, wk[w]) /\ UNCHANGED db
            ELSE /\ db' = [db EXCEPT !.item_nfe =
                             InsertRow(@, [nfe_id |-> wk[w].nfe_id,
                                           numero_item |->
                                             Data(w).itens[wk[w].i].numero_item])]
                 /\ Continue(w, [wk[w] EXCEPT !.item_id = NextId(db.item_nfe)])
    /\ UNCHANGED <<srcFolder, dstFolder, workers, runs>>

ImpostoFailureAbortsNoTry(i, j) == TRUE

\* whether an exception of the insert of tax entry j of item i leaves the
\* try block around it: "except Exception" catches it and only logs
ImpostoFailureAborts(i, j) == FALSE

\* 5. one tax entry of the item; a failed insert is caught and logged
InsertImposto(w) ==
    /\ wk[w].pc = "imposto"
    /\ \E fail \in FaultChoice :
         /\ Count(fail)
         /\ IF fail
            THEN LET L == [wk[w] EXCEPT
                             !.exc = TRUE,
                             !.skipped = @ \cup {<<wk[w].i, wk[w].j>>}]
                 IN /\ IF ImpostoFailureAborts(wk[w].i, wk[w].j)
                       THEN Raise(w, L)
                       ELSE Continue(w, L)
                    /\ UNCHANGED db
            ELSE /\ db' = [db EXCEPT !.imposto =
                             InsertRow(@, [item_nfe_id |-> wk[w].item_id,
                                           n |-> wk[w].j])]
                 /\ Continue(w, wk[w])
    /\ UNCHANGED <<srcFolder, dstFolder, workers, runs>>

\* 6. totals
InsertTotais(w) ==
    /\ wk[w].pc = "totais"
    /\ \E fail \in FaultChoice :
         /\ Count(fail)
         /\ IF fail
            THEN Raise(w, wk[w]) /\ UNCHANGED db
            ELSE /\ db' = [db EXCEPT !.totais_nfe =
                             InsertRow(@, [nfe_id |-> wk[w].nfe_id,
                                           valor_total_nfe |->
                                             Data(w).valor_total_nfe])]
                 /\ Continue(w, wk[w])
    /\ UNCHANGED <<srcFolder, dstFolder, workers, runs>>

TransporteRowNoCarrier(nfe_id, transportadora_id) ==
    [nfe_id |-> nfe_id, transportadora_id |-> None]

\* transporte_data['nfe_id'] = nfe_id;
\* transporte_data['transportadora_id'] = transportadora_id
TransporteRow(nfe_id, transportadora_id) ==
    [nfe_id |-> nfe_id, transportadora_id |-> transportadora_id]

\* 7. transport
InsertTransporte(w) ==
    /\ wk[w].pc = "transporte"
    /\ \E fail \in FaultChoice :
         /\ Count(fail)
         /\ IF fail
            THEN Raise(w, wk[w]) /\ UNCHANGED db
            ELSE /\ db' = [db EXCEPT !.transporte =
                             InsertRow(@, TransporteRow(wk[w].nfe_id,
                                                        wk[w].ids[3]))]
                 /\ Continue(w, [wk[w] EXCEPT !.tr_id = NextId(db.transporte)])
    /\ UNCHANGED <<srcFolder, dstFolder, workers, runs>>

\* 7. one volume; the loop over data['lacres'] that follows it only passes
InsertVolume(w) ==
    /\ wk[w].pc = "volume"
    /\ \E fail \in FaultChoice :
         /\ Count(fail)
         /\ IF fail
            THEN Raise(w, wk[w]) /\ UNCHANGED db
            ELSE /\ db' = [db EXCEPT !.transporte_item =
                             InsertRow(@, [transporte_id |-> wk[w].tr_id,
                                           tipo_item |-> "VOLUME",
                                           quantidade |->
                                             Data(w).volumes[wk[w].i].quantidade,
                                           peso_liquido |->
                                             Data(w).volumes[wk[w].i].peso_liquido,
                                           item_pai_id |-> None])]
                 /\ Continue(w, wk[w])
    /\ UNCHANGED <<srcFolder, dstFolder, workers, runs>>

\* 7. one vehicle
InsertVeiculo(w) ==
    /\ wk[w].pc = "veiculo"
    /\ \E fail \in FaultChoice :
         /\ Count(fail)
         /\ IF fail
            THEN Raise(w, wk[w]) /\ UNCHANGED db
            ELSE /\ db' = [db EXCEPT !.transporte_item =
                             InsertRow(@, [transporte_id |-> wk[w].tr_id,
                                           tipo_item |-> "VEICULO",
                                           quantidade |-> NoneNumber,
                                           peso_liquido |-> NoneNumber,
                                           item_pai_id |-> None])]
                 /\ Continue(w, wk[w])
    /\ UNCHANGED <<srcFolder, dstFolder, workers, runs>>

\* 8. additional information
InsertInfo(w) ==
    /\ wk[w].pc = "info"
    /\ \E fail \in FaultChoice :
         /\ Count(fail)
         /\ IF fail
            THEN Raise(w, wk[w]) /\ UNCHANGED db
            ELSE /\ db' = [db EXCEPT !.informacoes_adicionais =
                             InsertRow(@, [nfe_id |-> wk[w].nfe_id])]
                 /\ Continue(w, wk[w])
    /\ UNCHANGED <<srcFolder, dstFolder, workers, runs>>

\* the except clause: save_processing_status(..., 'FALHA_DB', ...); return None
SaveFalhaDb(w) ==
    /\ wk[w].pc = "falha_db"
    /\ \E fail \in FaultChoice :
         /\ Count(fail)
         /\ db' = save_processing_status(db, wk[w].nfe_id, "FALHA_DB", wk[w].xml, fail)
         /\ IF StatusPropagates(wk[w].nfe_id, wk[w].xml, fail)
            THEN ToExcept(w) /\ UNCHANGED calls
            ELSE Return(w, wk[w], None)
    /\ UNCHANGED <<srcFolder, dstFolder, workers, runs>>

(***************************************************************************)
(* Specifications                                                          *)
(***************************************************************************)
InitWith(W, D) ==
    /\ srcFolder \in [FileNames -> D \cup {None}]
    /\ dstFolder = [f \in FileNames |-> None]
    /\ db = EmptyDb
    /\ wk = [w \in Workers |-> IdleFrame]
    /\ workers = W
    /\ faults = 0
    /\ runs = 0
    /\ calls = {}

Init == InitWith({1}, Docs)

Next ==
    \E w \in Workers :
        \/ StartExecute(w)
        \/ ReadFile(w)
        \/ StatusExtracao(w)
        \/ StatusErro(w)
        \/ PessoaSelect(w)
        \/ PessoaInsert(w)
        \/ InsertNfe(w)
        \/ InsertEndereco(w)
        \/ InsertNfePessoa(w)
        \/ InsertItem(w)
        \/ InsertImposto(w)
        \/ InsertTotais(w)
        \/ InsertTransporte(w)
        \/ InsertVolume(w)
        \/ InsertVeiculo(w)
        \/ InsertInfo(w)
        \/ SaveFalhaDb(w)
        \/ MoveFile(w)
        \/ StatusSucesso(w)

\* one worker: the scheduled DAG run
Spec == Init /\ [][Next]_vars

\* two workers running execute over the same folders and the same store
InitConc == InitWith({1, 2}, ConcDocs)
\* the statements the documents of ConcDocs reach
NextConc ==
    \E w \in Workers :
        \/ StartExecute(w)
        \/ ReadFile(w)
        \/ StatusExtracao(w)
        \/ StatusErro(w)
        \/ PessoaSelect(w)
        \/ PessoaInsert(w)
        \/ InsertNfe(w)
        \/ InsertEndereco(w)
        \/ InsertNfePessoa(w)
        \/ InsertItem(w)
        \/ InsertImposto(w)
        \/ InsertTotais(w)
        \/ SaveFalhaDb(w)
        \/ MoveFile(w)
        \/ StatusSucesso(w)

SpecConc == InitConc /\ [][NextConc]_vars

(***************************************************************************)
(* The upload route: NotaFiscalSaver.save writes the uploaded file into    *)
(* the folder execute reads from, under the name the client gave.          *)
(***************************************************************************)
UploadDocs == {4, 8, 9}

\* NotaFiscalSaver.save: an empty filename is rejected (ValueError, nothing
\* written); otherwise file_storage.save(os.path.join(upload_folder,
\* filename)) creates the file or replaces the one of that name
Upload(f, doc) ==
    /\ f # ""
    /\ srcFolder' = [srcFolder EXCEPT ![f] = doc]
    /\ UNCHANGED <<dstFolder, db, wk, workers, faults, runs, calls>>

\* one worker, and clients uploading while it runs or between its runs;
\* the store and the file system raise nothing (the budget of raised errors
\* is spent from the start)
InitUpload ==
    /\ srcFolder \in [FileNames -> UploadDocs \cup {None}]
    /\ dstFolder = [f \in FileNames |-> None]
    /\ db = EmptyDb
    /\ wk = [w \in Workers |-> IdleFrame]
    /\ workers = {1}
    /\ faults = MaxFaults
    /\ runs = 0
    /\ calls = {}

\* the statements the documents of UploadDocs reach when nothing raises
NextUpload ==
    \/ \E w \in Workers :
          \/ StartExecute(w)
          \/ ReadFile(w)
          \/ StatusExtracao(w)
          \/ PessoaSelect(w)
          \/ PessoaInsert(w)
          \/ InsertNfe(w)
          \/ InsertEndereco(w)
          \/ InsertNfePessoa(w)
          \/ InsertItem(w)
          \/ InsertImposto(w)
          \/ InsertTotais(w)
          \/ MoveFile(w)
          \/ StatusSucesso(w)
    \/ \E f \in FileNames, doc \in UploadDocs : Upload(f, doc)

SpecUpload == InitUpload /\ [][NextUpload]_vars

(***************************************************************************)
(* NotaFiscalService.get_nota_fiscal_by_identifier.  An identifier is the  *)
(* text the caller passes: isdigit is identifier.isdigit(), int is         *)
(* int(identifier) when it is, str is the text.                            *)
(***************************************************************************)
\* the access keys of the catalog stand for 44-digit numerals
KeyIsDigit(k) ==
    k \in {"K1", "K2", "K3", "K4", "K5", "K6", "K7", "K8", "K9", "K10"}

\* int(k) of such a numeral: a number beyond every serial id
KeyNumber(k) ==
    1000000 + (CASE k = "K1" -> 1 [] k = "K2" -> 2 [] k = "K3" -> 3
                 [] k = "K4" -> 4 [] k = "K5" -> 5 [] k = "K6" -> 6
                 [] k = "K7" -> 7 [] k = "K8" -> 8 [] k = "K9" -> 9
                 [] k = "K10" -> 10 [] OTHER -> 0)

\* the identifier that is the text of access key k
ChaveText(k) == [isdigit |-> KeyIsDigit(k), int |-> KeyNumber(k), str |-> k]

\* the identifier that is str(n) of surrogate id n
IdText(n) == [isdigit |-> TRUE, int |-> n, str |-> "str(id)"]

\* "if identifier.isdigit(): ... WHERE n.id = %s  else: ... WHERE
\* n.chave_acesso = %s"
QueryNfe(d, identifier) ==
    IF identifier.isdigit THEN {n \in d.nfe : n.id = identifier.int}
    ELSE {n \in d.nfe : n.chave_acesso = identifier.str}

\* the party rows the loop over the links of one role can end on
LinkedPessoas(d, nfe_id, role) ==
    {p \in d.pessoa :
        \E l \in d.nfe_pessoa :
            l.nfe_id = nfe_id /\ l.tipo_relacao = role /\ l.pessoa_id = p.id}

NotFound ==
    [found |-> FALSE, id |-> None, chave_acesso |-> "", data_emissao |-> "",
     emitente |-> {}, destinatario |-> {}, itens |-> 0, totais |-> {}]

\* The dictionary returned, None when no header row matches.  emitente,
\* destinatario and totais are the sets of rows the query can return (the
\* last link of the role in an unordered fetchall, fetchone of the totals);
\* itens is len(nfe_data['itens']).
get_nota_fiscal_by_identifier(d, identifier) ==
    IF QueryNfe(d, identifier) = {} THEN NotFound
    ELSE LET n == CHOOSE x \in QueryNfe(d, identifier) : TRUE
         IN [found |-> TRUE, id |-> n.id, chave_acesso |-> n.chave_acesso,
             data_emissao |-> n.data_emissao,
             emitente |-> LinkedPessoas(d, n.id, "EMITENTE"),
             destinatario |-> LinkedPessoas(d, n.id, "DESTINATARIO"),
             itens |-> Cardinality({i \in d.item_nfe : i.nfe_id = n.id}),
             totais |-> {t \in d.totais_nfe : t.nfe_id = n.id}]

(***************************************************************************)
(* Properties                                                              *)
(***************************************************************************)
\* the statements of save_to_postgres
SavePcs ==
    {"pes_sel", "pes_ins", "nfe", "end", "link", "item", "imposto", "totais",
     "transporte", "volume", "veiculo", "info"}

InSave(w) == wk[w].pc \in SavePcs \/ wk[w].pc = "falha_db"

\* save_to_postgres has just returned to execute
Returned(w) == wk[w].pc = "move"

\* _insert_or_get_pessoa_id has returned for role r in the current call
Resolved(w, r) ==
    /\ wk[w].pc \in SavePcs
    /\ IndexOf(Pos(wk[w].pc, wk[w].i, wk[w].j), Data(w))
         > IndexOf(Pos("pes_ins", r, 0), Data(w))

\* C1: when save_to_postgres returns its failure signal after its header
\* insert created the row, no row written for that invoice remains: the
\* header row is gone and the child tables are as they were when the call
\* began.
C1_Atomicity ==
    \A w \in Workers :
        (Returned(w) /\ wk[w].ret = None /\ wk[w].fresh)
        => /\ ~\E x \in db.nfe : x.id = wk[w].nfe_id
           /\ ChildRowCount(db) = wk[w].pre

\* C2: a save_to_postgres call on a document whose access key was already
\* stored when the call began returns with the child tables holding as many
\* rows as when it began.
C2_IdempotentReprocessing ==
    \A w \in Workers :
        (Returned(w) /\ wk[w].had) => ChildRowCount(db) = wk[w].pre

\* C3: the header table holds at most one row per access key, under every
\* interleaving of the workers.
C3_UniqueAccessKey ==
    \A x, y \in db.nfe :
        (x.chave_acesso = y.chave_acesso /\ x.chave_acesso # "NULL") => x = y

\* C3 witness: two workers hold the identity of the same header row, the
\* second having met the conflict on the access key.
C3_Witness ==
    \E v, w \in Workers :
        /\ v # w
        /\ wk[v].nfe_id # None /\ wk[v].nfe_id = wk[w].nfe_id
        /\ wk[v].fresh /\ ~wk[w].fresh

\* C4: when execute finishes, every file whose save_to_postgres returned the
\* failure signal in that run is still in the source folder.
C4_FailedFileStays ==
    \A w \in Workers :
        wk[w].pc = "idle" => \A f \in wk[w].failed : srcFolder[f] # None

\* C5: a step that writes a SUCESSO processing-status row is taken only by an
\* attempt whose save_to_postgres returned an invoice surrogate key.
C5_SuccessOnlyWithKey ==
    [][\A w \in Workers :
          (/\ wk[w].pc = "st_sucesso"
           /\ \E r \in db'.processamento_nfe \ db.processamento_nfe :
                  r.status = "SUCESSO")
          => wk[w].ret # None]_vars

\* C6: after exactly two save_to_postgres calls, run one after the other,
\* both returning a surrogate key without any exception, on two invoices whose
\* issuers have the same CNPJ, the party table holds exactly one row with that
\* CNPJ and exactly two EMITENTE links point to it, one per invoice.
EmitLinksTo(P) ==
    {l \in db.nfe_pessoa : l.tipo_relacao = "EMITENTE" /\ \E x \in P : x.id = l.pessoa_id}

TwoPersisted(c1, c2) ==
    /\ calls = {c1, c2} /\ c1 # c2
    /\ \A w \in Workers : ~InSave(w)
    /\ c1.clean /\ c2.clean
    /\ c1.ret # None /\ c2.ret # None /\ c1.ret # c2.ret
    /\ DataOf(c1.doc).emitente.cnpj # ""
    /\ DataOf(c1.doc).emitente.cnpj = DataOf(c2.doc).emitente.cnpj

C6_PartyDedup ==
    \A c1, c2 \in calls :
        TwoPersisted(c1, c2)
        => LET P == {x \in db.pessoa : x.cnpj = DataOf(c1.doc).emitente.cnpj}
           IN /\ Cardinality(P) = 1
              /\ Cardinality(EmitLinksTo(P)) = 2
              /\ {l.nfe_id : l \in EmitLinksTo(P)} = {c1.ret, c2.ret}

\* C6 witness: two invoices of the same issuer have been persisted.
C6_Witness == \E c1, c2 \in calls : TwoPersisted(c1, c2)

\* C7: when two workers have both resolved the issuer of their documents and
\* the issuers have the same CNPJ, the store holds at most one party row with
\* that CNPJ and each worker holds the identity of that row.
C7_RaceFreeDedup ==
    \A v, w \in Workers :
        (/\ v # w
         /\ Resolved(v, 1) /\ Resolved(w, 1)
         /\ Data(v).emitente.present /\ Data(w).emitente.present
         /\ Data(v).emitente.cnpj # ""
         /\ Data(v).emitente.cnpj = Data(w).emitente.cnpj)
        => LET P == {x \in db.pessoa : x.cnpj = Data(v).emitente.cnpj}
           IN /\ Cardinality(P) <= 1
              /\ \E x \in P : wk[v].ids[1] = x.id /\ wk[w].ids[1] = x.id

\* C8: extrair_dados_nfe returns None for every well-formed document read
\* by execute that lacks the infNFe node, and save_to_postgres never runs on
\* such a document.
C8_MissingHeaderFails ==
    /\ \A w \in Workers :
         (wk[w].xml # None /\ DocTable[wk[w].xml].form = "xml"
          /\ ~DocTable[wk[w].xml].infNFe)
         => ~DataOf(wk[w].xml).ok
    /\ \A w \in Workers : InSave(w) => DocTable[wk[w].xml].infNFe

\* C9: the step of execute that handles a failed extraction, when no
\* statement raises, writes no invoice table, leaves the file in the source
\* folder and adds a FALHA_EXTRACAO processing-status row.
InvoiceTables(d) == [d EXCEPT !.processamento_nfe = {}]

C9_ExtractionFailureHandled ==
    [][\A w \in Workers :
          (wk[w].pc = "st_extracao" /\ wk'[w] # wk[w] /\ faults' = faults)
          => /\ InvoiceTables(db') = InvoiceTables(db)
             /\ srcFolder'[CurFile(w)] = srcFolder[CurFile(w)]
             /\ srcFolder[CurFile(w)] # None
             /\ \E r \in db'.processamento_nfe \ db.processamento_nfe :
                    r.status = "FALHA_EXTRACAO"]_vars

\* a party of the current call that has neither CNPJ nor CPF
NoTaxIdParty(w, r) ==
    PartyOf(Data(w), r).present /\ ~HasTaxId(PartyOf(Data(w), r))

C11_MandatoryPartyAbort ==
    \A w \in Workers :
        (Returned(w) /\ (wk[w].ids[1] = None \/ wk[w].ids[2] = None))
        => /\ wk[w].ret = None
           /\ ~(wk[w].fresh /\ \E x \in db.nfe : x.id = wk[w].nfe_id)
           /\ ChildRowCount(db) = wk[w].pre

\* the links of one role that point to header row id
LinksOf(id, role) ==
    {l \in db.nfe_pessoa : l.nfe_id = id /\ l.tipo_relacao = role}

\* C12: every header row that a save_to_postgres call returned the key of has
\* exactly one EMITENTE link and exactly one DESTINATARIO link.
C12_ExactlyOneLinkPerRole ==
    \A c \in calls :
        c.ret # None
        => /\ Cardinality(LinksOf(c.ret, "EMITENTE")) = 1
           /\ Cardinality(LinksOf(c.ret, "DESTINATARIO")) = 1

\* C13: no address row is stored with an empty postal code (one of the
\* required subfields).
C13_AddressComplete == \A a \in db.endereco : a.cep # ""

\* C14: when save_to_postgres returns without an exception from a call whose
\* header upsert met an access key already stored, the value returned is
\* neither the failure signal nor the surrogate key of a header row.
C14_DuplicateDistinguishable ==
    \A w \in Workers :
        (Returned(w) /\ wk[w].had /\ ~wk[w].fresh /\ ~wk[w].exc)
        => /\ wk[w].ret # None
           /\ wk[w].ret \notin {x.id : x \in db.nfe}

\* a step of worker w that ends the attempt on one file
EndsAttempt(w) == wk[w].pc \in {"st_extracao", "st_erro", "st_sucesso"}

\* a step of worker w that handles a failure of the attempt
HandlesFailure(w) == wk[w].pc \in {"st_extracao", "st_erro", "falha_db"}

StatusRowAdded == db'.processamento_nfe # db.processamento_nfe

\* C15: within a run every listed file is attempted: the list shrinks one
\* file at a time, only by a step that ends the attempt on its first file,
\* and the run ends only with the attempt on the last file; and every step
\* that handles a failure (read, extraction or persistence), when the store
\* raises nothing during it, adds a processing-status row.
C15_BatchIsolation ==
    [][\A w \in Workers :
          (wk[w].pc # "idle" /\ wk'[w] # wk[w])
          => /\ wk'[w].files # wk[w].files
                => EndsAttempt(w) /\ wk'[w].files = Tail(wk[w].files)
             /\ wk'[w].pc = "idle" => Len(wk[w].files) = 1
             /\ (HandlesFailure(w) /\ faults' = faults) => StatusRowAdded]_vars

\* C15, the list only: the first two conjuncts of C15.
BatchIsolationListOnly ==
    [][\A w \in Workers :
          (wk[w].pc # "idle" /\ wk'[w] # wk[w])
          => /\ wk'[w].files # wk[w].files
                => EndsAttempt(w) /\ wk'[w].files = Tail(wk[w].files)
             /\ wk'[w].pc = "idle" => Len(wk[w].files) = 1]_vars

\* C16: whatever happens inside save_processing_status, the caller goes on:
\* from the three calls in execute the loop moves to the next file (or the
\* run ends after the last one), and from the call in the except clause of
\* save_to_postgres that method returns None to execute.
C16_StatusFailureSwallowed ==
    [][\A w \in Workers :
          (wk'[w] # wk[w])
          => /\ EndsAttempt(w)
                => /\ wk'[w].files = Tail(wk[w].files)
                   /\ wk'[w].pc = IF Tail(wk[w].files) = <<>> THEN "idle" ELSE "read"
             /\ wk[w].pc = "falha_db"
                => wk'[w].pc = "move" /\ wk'[w].ret = None]_vars

\* C16 witness: the empty file was attempted, its FALHA_EXTRACAO insert
\* raised (no status row exists) and execute has moved on.
C16_Witness ==
    \E w \in Workers :
        /\ wk[w].xml # None /\ DocTable[wk[w].xml].form = "empty"
        /\ wk[w].pc \in {"read", "idle"}
        /\ db.processamento_nfe = {}
        /\ faults = 1

\* C17: for every header row a save_to_postgres call returned the key of,
\* whose access key is a 44-digit numeral, get_nota_fiscal_by_identifier
\* finds that row both by the access key and by the surrogate id.
C17_LookupByKeyAndById ==
    \A c \in calls :
        (c.ret # None /\ DataOf(c.doc).has_chave
         /\ KeyIsDigit(DataOf(c.doc).chave_acesso))
        => LET byKey == get_nota_fiscal_by_identifier(
                            db, ChaveText(DataOf(c.doc).chave_acesso))
               byId == get_nota_fiscal_by_identifier(db, IdText(c.ret))
           IN /\ byKey.found /\ byKey.id = c.ret
              /\ byId.found /\ byId.id = c.ret

\* C17, by surrogate id only.
LookupById ==
    \A c \in calls :
        c.ret # None
        => get_nota_fiscal_by_identifier(db, IdText(c.ret)).id = c.ret

\* a document with access key, ide, issuer, recipient and totals
ValidDoc(d) ==
    /\ d.form = "xml" /\ d.infNFe /\ d.ide = "ok"
    /\ d.emit.present /\ d.dest.present /\ d.tot
    /\ extrair_dados_nfe(d).ok

TaxIds(P) == {<<p.cnpj, p.cpf>> : p \in P}

\* C18: for every valid document that a save_to_postgres call persisted
\* without any exception, the invoice queried back by the key the call
\* returned has the document's access key, emission date, issuer tax id,
\* recipient tax id, number of items and total value.
C18_RoundTrip ==
    \A c \in calls :
        (c.ret # None /\ c.clean /\ ValidDoc(DocTable[c.doc]))
        => LET D == DocTable[c.doc]
               q == get_nota_fiscal_by_identifier(db, IdText(c.ret))
           IN /\ q.found
              /\ q.chave_acesso = StripPrefix(D.Id)
              /\ q.data_emissao = parse_date_to_timestamp(D.dhEmi)
              /\ TaxIds(q.emitente) = {<<D.emit.cnpj, D.emit.cpf>>}
              /\ TaxIds(q.destinatario) = {<<D.dest.cnpj, D.dest.cpf>>}
              /\ q.itens = Len(D.dets)
              /\ {t.valor_total_nfe : t \in q.totais} = {float(D.vNF)}

\* C18, without the number of items.
RoundTripButItems ==
    \A c \in calls :
        (c.ret # None /\ c.clean /\ ValidDoc(DocTable[c.doc]))
        => LET D == DocTable[c.doc]
               q == get_nota_fiscal_by_identifier(db, IdText(c.ret))
           IN /\ q.found
              /\ q.chave_acesso = StripPrefix(D.Id)
              /\ q.data_emissao = parse_date_to_timestamp(D.dhEmi)
              /\ TaxIds(q.emitente) = {<<D.emit.cnpj, D.emit.cpf>>}
              /\ TaxIds(q.destinatario) = {<<D.dest.cnpj, D.dest.cpf>>}
              /\ {t.valor_total_nfe : t \in q.totais} = {float(D.vNF)}

\* the document worker w has read, when extraction reaches its volumes
ReadsVolumes(w) ==
    /\ wk[w].xml # None
    /\ DocTable[wk[w].xml].form = "xml" /\ DocTable[wk[w].xml].transp

\* C19: on the qVol and pesoL texts of every document read, _safe_int and
\* _safe_float raise nothing; _safe_int("12.0") is 12 and both return None
\* for "abc".
C19_SafeParse ==
    \A w \in Workers :
        ReadsVolumes(w)
        => \A k \in DOMAIN DocTable[wk[w].xml].vols :
             LET v == DocTable[wk[w].xml].vols[k] IN
             /\ _safe_int(v.qVol).raised = ""
             /\ _safe_float(v.pesoL).raised = ""
             /\ v.qVol = "12.0" => _safe_int(v.qVol).value = Number("int", 12, 0)
             /\ v.qVol = "abc" => _safe_int(v.qVol).value = NoneNumber
             /\ v.pesoL = "abc" => _safe_float(v.pesoL).value = NoneNumber

\* C19 without "inf": the same on the documents whose texts are not "inf".
SafeParseFinite ==
    \A w \in Workers :
        ReadsVolumes(w)
        => \A k \in DOMAIN DocTable[wk[w].xml].vols :
             LET v == DocTable[wk[w].xml].vols[k] IN
             v.qVol # "inf"
             => /\ _safe_int(v.qVol).raised = ""
                /\ _safe_float(v.pesoL).raised = ""
                /\ v.qVol = "12.0" => _safe_int(v.qVol).value = Number("int", 12, 0)
                /\ v.qVol = "abc" => _safe_int(v.qVol).value = NoneNumber
                /\ v.pesoL = "abc" => _safe_float(v.pesoL).value = NoneNumber

\* C20: for every document read whose extraction fails for no other reason,
\* extraction succeeds, the items are in document order and the sequence
\* number of each is its nItem when that is numeric and its 1-based position
\* otherwise.
C20_ItemSequenceNumbers ==
    \A w \in Workers :
        (/\ wk[w].xml # None
         /\ DocTable[wk[w].xml].form = "xml"
         /\ DocTable[wk[w].xml].ide # "bad"
         /\ ~DateRaises(DocTable[wk[w].xml])
         /\ ~VolumeRaises(DocTable[wk[w].xml]))
        => LET d == DocTable[wk[w].xml] IN
           /\ Data(w).ok
           /\ Len(Data(w).itens) = Len(d.dets)
           /\ \A i \in DOMAIN d.dets :
                Data(w).itens[i].numero_item =
                    IF d.dets[i].nItemKind = "num" THEN d.dets[i].nItem ELSE i

\* C20 without the non-numeric attribute: nItem numeric or absent.
ItemSequenceNumbersNumeric ==
    \A w \in Workers :
        (/\ wk[w].xml # None
         /\ DocTable[wk[w].xml].form = "xml"
         /\ DocTable[wk[w].xml].ide # "bad"
         /\ ~DateRaises(DocTable[wk[w].xml])
         /\ ~VolumeRaises(DocTable[wk[w].xml])
         /\ \A i \in DOMAIN DocTable[wk[w].xml].dets :
               DocTable[wk[w].xml].dets[i].nItemKind # "bad")
        => LET d == DocTable[wk[w].xml] IN
           /\ Data(w).ok
           /\ Len(Data(w).itens) = Len(d.dets)
           /\ \A i \in DOMAIN d.dets :
                Data(w).itens[i].numero_item =
                    IF d.dets[i].nItemKind = "num" THEN d.dets[i].nItem ELSE i

\* a document read by worker w whose extraction can fail only on a date
DatesDecide(w) ==
    /\ wk[w].xml # None
    /\ DocTable[wk[w].xml].form = "xml" /\ DocTable[wk[w].xml].ide = "ok"
    /\ \A i \in DOMAIN DocTable[wk[w].xml].dets :
          DocTable[wk[w].xml].dets[i].nItemKind # "bad"
    /\ ~VolumeRaises(DocTable[wk[w].xml])

\* C21: for every document read, extraction returns a record whose emission
\* date and exit date are None exactly where parse_date_to_timestamp returns
\* None for the text; an unparsable date does not make extraction fail.
C21_UnparsableDateIsNull ==
    \A w \in Workers :
        DatesDecide(w)
        => /\ Data(w).ok
           /\ Data(w).data_emissao
                = parse_date_to_timestamp(DocTable[wk[w].xml].dhEmi)
           /\ Data(w).data_saida_entrada
                = parse_date_to_timestamp(DocTable[wk[w].xml].dhSaiEnt)

\* C21 on the documents whose date texts are empty or match a format.
ParsableDates ==
    \A w \in Workers :
        (DatesDecide(w) /\ ~DateRaises(DocTable[wk[w].xml]))
        => /\ Data(w).ok
           /\ Data(w).data_emissao
                = parse_date_to_timestamp(DocTable[wk[w].xml].dhEmi)
           /\ Data(w).data_saida_entrada
                = parse_date_to_timestamp(DocTable[wk[w].xml].dhSaiEnt)

\* save_to_postgres has returned a key and had resolved a carrier identity
CarrierResolved(w) ==
    Returned(w) /\ wk[w].ret # None /\ wk[w].ids[3] # None

C23_SealsUnderVolume ==
    \A w \in Workers :
        (Returned(w) /\ wk[w].ret # None /\ ~wk[w].exc /\ Data(w).lacres > 0)
        => LET seals == {r \in db.transporte_item :
                           /\ r.tipo_item = "LACRE"
                           /\ r.transporte_id = wk[w].tr_id}
           IN /\ Cardinality(seals) = Data(w).lacres
              /\ \A r \in seals :
                    \E v \in db.transporte_item :
                       /\ v.tipo_item = "VOLUME" /\ v.id = r.item_pai_id
                       /\ v.transporte_id = r.transporte_id

\* no row of type LACRE is ever stored
NoSealStored == \A r \in db.transporte_item : r.tipo_item # "LACRE"

\* save_to_postgres has returned after at least one tax-entry insert failed
\* and no other statement raised
TaxSkipped(w) ==
    Returned(w) /\ wk[w].skipped # {} /\ wk[w].raised \in {"", "imposto"}

\* C24: when a tax-entry insert fails and nothing else does, the call
\* returns the surrogate key, and every item, every other tax entry, the
\* totals, the transport and the additional information of the document
\* are stored for that key.
C24_TaxFailureSkipped ==
    \A w \in Workers :
        TaxSkipped(w)
        => LET data == Data(w) IN
           /\ wk[w].ret # None /\ wk[w].ret = wk[w].nfe_id
           /\ \A i \in DOMAIN data.itens :
                 \E it \in db.item_nfe :
                    /\ it.nfe_id = wk[w].ret
                    /\ it.numero_item = data.itens[i].numero_item
                    /\ \A j \in 1..data.itens[i].impostos :
                          <<i, j>> \notin wk[w].skipped
                          => \E t \in db.imposto :
                                t.item_nfe_id = it.id /\ t.n = j
           /\ data.totais => \E t \in db.totais_nfe : t.nfe_id = wk[w].ret
           /\ data.transporte => \E t \in db.transporte : t.nfe_id = wk[w].ret
           /\ data.informacoes_adicionais
                => \E t \in db.informacoes_adicionais : t.nfe_id = wk[w].ret

\* the first tax entry of an item was skipped, the second one is stored,
\* and so are the totals
C24_Witness ==
    \E w \in Workers :
        /\ TaxSkipped(w) /\ wk[w].ret # None
        /\ \E i \in DOMAIN Data(w).itens :
              /\ <<i, 1>> \in wk[w].skipped
              /\ \E it \in db.item_nfe, t \in db.imposto :
                    it.nfe_id = wk[w].ret /\ t.item_nfe_id = it.id /\ t.n = 2
        /\ \E t \in db.totais_nfe : t.nfe_id = wk[w].ret

\* C25: the status row written for a file whose reading failed carries no
\* XML payload other than that file's, and no invoice other than the one
\* with that file's access key.
C25_ReadFailureStatusOwnFile ==
    [][\A w \in Workers :
          (wk[w].pc = "st_erro" /\ wk[w].raised = "read" /\ wk'[w] # wk[w])
          => \A r \in db'.processamento_nfe \ db.processamento_nfe :
                LET own == srcFolder[CurFile(w)] IN
                /\ r.xml_original = None
                   \/ (own # None /\ r.xml_original = own)
                /\ r.nfe_id = None
                   \/ (own # None /\ \E n \in db.nfe :
                          /\ n.id = r.nfe_id
                          /\ n.chave_acesso = ChaveColumn(DataOf(own)))]_vars

\* C25 for the first file of a run: no payload and no invoice at all.
ReadFailureFirstFile ==
    [][\A w \in Workers :
          (wk[w].pc = "st_erro" /\ wk[w].raised = "read" /\ wk'[w] # wk[w]
           /\ wk[w].xml = None)
          => \A r \in db'.processamento_nfe \ db.processamento_nfe :
                r.xml_original = None /\ r.nfe_id = None]_vars

PrincipalOf(p) ==
    {a \in db.endereco : a.pessoa_id = p /\ a.tipo_endereco = "PRINCIPAL"}

\* C26: in every reachable state every party has at most one address row
\* of type PRINCIPAL.
C26_OnePrincipalAddress ==
    \A p \in db.pessoa : Cardinality(PrincipalOf(p.id)) <= 1

\* C26 up to the return of the first call of save_to_postgres
OnePrincipalAddressFirstCall ==
    calls = {} => \A p \in db.pessoa : Cardinality(PrincipalOf(p.id)) <= 1

\* the link rows a LEFT JOIN on (nfe_id, tipo_relacao) pairs with header n;
\* a header without such a link is paired once, with NULL
LeftJoin(d, n, role) ==
    LET L == {l \in d.nfe_pessoa : l.nfe_id = n.id /\ l.tipo_relacao = role}
    IN IF L = {} THEN {None} ELSE {l.id : l \in L}

\* list_notas_fiscais_summary: one result per row of the query; np_e and
\* np_d are the link rows joined as issuer and as recipient
list_notas_fiscais_summary(d) ==
    UNION {{[id |-> n.id, chave_acesso |-> n.chave_acesso,
             np_e |-> e, np_d |-> x] :
               e \in LeftJoin(d, n, "EMITENTE"),
               x \in LeftJoin(d, n, "DESTINATARIO")} : n \in d.nfe}

\* C27: in every reachable state the summary list has exactly one entry for
\* every stored header row.
C27_SummaryOncePerInvoice ==
    \A n \in db.nfe :
        Cardinality({r \in list_notas_fiscais_summary(db) : r.id = n.id}) = 1

\* C27 for the headers with at most one link per role
SummaryOnceSingleLinks ==
    \A n \in db.nfe :
        (\A role \in {"EMITENTE", "DESTINATARIO"} :
            Cardinality(LinksOf(n.id, role)) <= 1)
        => Cardinality({r \in list_notas_fiscais_summary(db) : r.id = n.id}) = 1

Ids(tbl) == {x.id : x \in tbl}

\* C28: in every reachable state (also in the middle of a call of
\* save_to_postgres and after a failed one) every address references an
\* existing party; every link an existing header and an existing party;
\* every item, totals, transport and additional-information row an existing
\* header; every tax entry an existing item (whose header exists); every
\* transport row's carrier, if set, an existing party; every transport item
\* an existing transport row; every status row's invoice, if set, an
\* existing header.
C28_ReferentialIntegrity ==
    /\ \A a \in db.endereco : a.pessoa_id \in Ids(db.pessoa)
    /\ \A l \in db.nfe_pessoa :
          l.nfe_id \in Ids(db.nfe) /\ l.pessoa_id \in Ids(db.pessoa)
    /\ \A i \in db.item_nfe : i.nfe_id \in Ids(db.nfe)
    /\ \A t \in db.imposto :
          \E i \in db.item_nfe : i.id = t.item_nfe_id /\ i.nfe_id \in Ids(db.nfe)
    /\ \A t \in db.totais_nfe : t.nfe_id \in Ids(db.nfe)
    /\ \A t \in db.transporte :
          /\ t.nfe_id \in Ids(db.nfe)
          /\ t.transportadora_id \in Ids(db.pessoa) \cup {None}
    /\ \A t \in db.transporte_item :
          /\ t.transporte_id \in Ids(db.transporte)
          /\ t.item_pai_id \in Ids(db.transporte_item) \cup {None}
    /\ \A t \in db.informacoes_adicionais : t.nfe_id \in Ids(db.nfe)
    /\ \A t \in db.processamento_nfe : t.nfe_id \in Ids(db.nfe) \cup {None}

\* a call of save_to_postgres failed after it had stored parties, links,
\* addresses, an item with a tax entry, a transport row and transport items
\* for a header that an earlier call had stored already
C28_Witness ==
    \E w \in Workers :
        /\ wk[w].pc = "falha_db" /\ wk[w].had
        /\ \E i \in db.item_nfe, t \in db.imposto :
              i.nfe_id = wk[w].nfe_id /\ t.item_nfe_id = i.id
        /\ \E t \in db.transporte, v \in db.transporte_item :
              t.nfe_id = wk[w].nfe_id /\ v.transporte_id = t.id
        /\ db.nfe_pessoa # {} /\ db.endereco # {}

\* C29, the archive and the audit trail: no more SUCESSO rows than archived
\* files (a file is moved once, and only the run that moved it records
\* SUCESSO).
MovedAndSucceededOnce ==
    Cardinality({r \in db.processamento_nfe : r.status = "SUCESSO"})
      <= Cardinality(Present(dstFolder))

\* C29: with two runs of execute interleaved over one folder, a file is
\* persisted (save_to_postgres returns a key for it) by at most one run, it
\* is moved once and gets at most one SUCESSO row.
C29_OneRunPerFile ==
    /\ \A c1, c2 \in calls :
          (c1.file = c2.file /\ c1.ret # None /\ c2.ret # None)
          => (c1.w = c2.w /\ c1.run = c2.run)
    /\ MovedAndSucceededOnce

\* C30: no accepted document is lost: a file in the source folder changes
\* only by being moved, with its content, to the destination folder (an
\* upload never replaces it), and a file in the destination folder never
\* changes (a move never replaces it).
C30_NoDocumentLost ==
    [][\A f \in FileNames :
          /\ (srcFolder[f] # None /\ srcFolder'[f] # srcFolder[f])
             => (srcFolder'[f] = None /\ dstFolder'[f] = srcFolder[f])
          /\ dstFolder[f] # None => dstFolder'[f] = dstFolder[f]]_vars

\* C30, the upload half only.
UploadKeepsUnprocessed ==
    [][\A f \in FileNames :
          (srcFolder[f] # None /\ srcFolder'[f] # srcFolder[f])
          => (srcFolder'[f] = None /\ dstFolder'[f] = srcFolder[f])]_vars

\* C30, the archive half only.
MoveKeepsArchived ==
    [][\A f \in FileNames :
          dstFolder[f] # None => dstFolder'[f] = dstFolder[f]]_vars

====
